---- MODULE Spec2Model ----
(***************************************************************************)
(* A model of the agent core of astral-agents:                             *)
(*   - the hook registry          (src/src/agents/core/hooks.py)           *)
(*   - the stream block accumulator                                        *)
(*                                (src/src/agents/core/payloads2/stream.py)*)
(*   - the guardrail runner       (src/src/agents/core/guardrail.py)       *)
(*   - the item converter                                                  *)
(*                            (src/src/agents/core/payloads2/completion.py)*)
(*   - the canonical types  (src/src/agents/core/payloads2/_astral_types.py)*)
(*   - the second message path  (src/src/agents/core/payloads2/_share.py)  *)
(* Each subsystem has its own specification (SpecHooks, SpecGlobalHooks,   *)
(* SpecReentrant, SpecRegistering, SpecStream, SpecAlias, SpecGuardrail,   *)
(* SpecConvert, SpecTypes, SpecContext); the variables of the other        *)
(* subsystems stay at their initial value.                                 *)
(***************************************************************************)
EXTENDS Integers, Sequences, FiniteSets, TLC

VARIABLES
    \* ---- hooks.py: HookRegistry ----
    hooks,        \* the five registration lists, one per event
    stack,        \* the active _run_hooks frames, innermost last
    log,          \* callback invocations of the current top-level dispatch
    outcome,      \* how the current top-level dispatch ended (or "running"/"idle")
    call,         \* the top-level run_<event> call being observed
    redispatches, \* run_error calls made by the except handler (line 159)
    \* ---- stream.py: _OutputState ----
    blocks,       \* _OutputState.blocks : index -> _Block
    item,         \* _OutputState.item
    lastOp,       \* the accumulator call made last, and what it met
    nops,         \* number of accumulator calls made so far
    \* ---- guardrail.py: InputGuardrail.run / OutputGuardrail.run ----
    turn,         \* the agent turn the guardrails are run on
    runs,         \* the run() coroutines of the turn, one per guardrail
    finished,     \* the runs that have ended, in the order they ended
    \* ---- completion.py: output_to_items ----
    output,       \* the raw blocks handed to output_to_items
    pos,          \* position of the `for py_obj in output` loop
    items,        \* the items list built so far
    conv,         \* the call: idle, running, returned or raised, and with what
    \* ---- _astral_types.py: the canonical models ----
    constructed,  \* the construction made last: variant, arguments, outcome
    \* ---- hooks.py: HookContext ----
    ctxs,         \* the HookContext objects made so far, by identity
    mdicts,       \* the metadata dict objects, by identity
    lastWith,     \* the with_tool call made last: receiver, argument, result, count
    \* ---- stream.py: _Block.json_content and the objects it refers to ----
    heap,         \* the JSON objects alive, by identity: object -> value
    json_ref,     \* the object self.json_content refers to
    bclosed,      \* self.closed of that block
    frags         \* the fragments passed to add_json: object, value when passed

hookVars   == <<hooks, stack, log, outcome, call, redispatches>>
streamVars == <<blocks, item, lastOp, nops>>
guardVars  == <<turn, runs, finished>>
convVars   == <<output, pos, items, conv>>
typeVars   == <<constructed>>
ctxVars    == <<ctxs, mdicts, lastWith>>
aliasVars  == <<heap, json_ref, bclosed, frags>>
vars       == <<hooks, stack, log, outcome, call, redispatches,
                blocks, item, lastOp, nops, turn, runs, finished,
                output, pos, items, conv,
                constructed,
                ctxs, mdicts, lastWith,
                heap, json_ref, bclosed, frags>>

(***************************************************************************)
(* Bounds                                                                  *)
(***************************************************************************)
\* total number of register_<event> calls
MaxRegs == 3
\* total number of accumulator calls
MaxOps == 4
\* number of guardrails run on one turn
MaxRuns == 2
\* number of raw blocks in one call of output_to_items
MaxBlocks == 3
\* number of HookContext objects
MaxContexts == 3
\* number of nested _run_hooks frames
MaxDepth == 4
\* number of fragments passed to add_json of one block
MaxFragments == 3

(***************************************************************************)
(*                              HOOK REGISTRY                              *)
(***************************************************************************)

\* The five lifecycle events: one list each (HookRegistry.__init__).
NonErrorEvents == {"agent_start", "agent_end", "tool_start", "tool_end"}
Events == NonErrorEvents \cup {"error"}

\* The names hooks.py binds at module level (imports, classes, defaults).
\* _run_hooks and the default_log_* callbacks read the global `logger`.
ModuleGlobals ==
    {"logging", "traceback", "Any", "Callable", "Dict", "List", "Optional",
     "Protocol", "Union", "__all__", "HookContext", "AgentHook", "ToolHook",
     "ResultHook", "ErrorHook", "HookRegistry", "global_hooks",
     "default_log_agent_start", "default_log_agent_end",
     "default_log_tool_start", "default_log_tool_end", "default_log_error"}
\* a module that binds `logger`
LoggerBound_bound == TRUE
LoggerBound == "logger" \in ModuleGlobals

\* Callbacks a caller may register: g1, g2 return normally, f1 raises.
Callbacks == {"g1", "g2", "f1"}

\* The default logging callbacks (hooks.py:169-192), one per event; each
\* one's body is a call of logger.info / logger.error.
DefaultOf(ev) == "default_log_" \o ev
DefaultCallbacks == {DefaultOf(ev) : ev \in Events}

\* Callbacks that call back into the registry they are registered in:
\*   n1, n2  call self.run_agent_start / self.run_tool_end with their
\*           context (an error callback reporting through another event);
\*   a1      calls register_<event>(g1) for the event it is registered for;
\*   a2      calls register_<event>(a2): one more of itself at every run.
ReentrantCallbacks   == {"n1", "n2"}
RegisteringCallbacks == {"a1", "a2"}
RunsEvent(cb)  == IF cb = "n1" THEN "agent_start" ELSE "tool_end"
Registers(cb)  == IF cb = "a1" THEN "g1" ELSE "a2"

\* a callback raises: f1 by construction, a default callback when the
\* global `logger` it reads is unbound
Fails(cb) == cb = "f1" \/ (cb \in DefaultCallbacks /\ ~LoggerBound)

\* HookContext values and the data handed to a dispatch.
Contexts == {"c1", "c2"}
None == "None"
Payload(v)   == [kind |-> "data", v |-> v]
Exc(v)       == [kind |-> "exc", v |-> v]
NameError    == Exc("NameError:logger")
\* the exception raised by a failing callback
Raised(cb)   == IF cb \in DefaultCallbacks THEN NameError ELSE Exc(cb)
\* data a top-level caller passes: any value for run_<event>, an exception
\* for run_error
CallData(ev) == IF ev = "error" THEN {Exc("E0")} ELSE {Payload("d1")}

\* HookRegistry.__init__: five empty lists.
EmptyRegistry == [ev \in Events |-> <<>>]

NoCall == [ev |-> None, ctx |-> None, data |-> Payload(None),
           registered |-> <<>>]

Frame(ev, ctx, data, is_error) ==
    [ev |-> ev, i |-> 1, ctx |-> ctx, data |-> data, is_error |-> is_error,
     at |-> "loop"]

\* global_hooks after the module body has run (hooks.py:166, 195-200):
\* each list holds its default callback
GlobalRegistry == [ev \in Events |-> <<DefaultOf(ev)>>]

TotalRegs == Len(hooks["agent_start"]) + Len(hooks["agent_end"])
             + Len(hooks["tool_start"]) + Len(hooks["tool_end"])
             + Len(hooks["error"])
\* the registrations made by callers, the module's own five apart
NumDefaults ==
    Cardinality({e \in Events \X (1..(MaxRegs + 1)) :
                    /\ e[2] <= Len(hooks[e[1]])
                    /\ hooks[e[1]][e[2]] \in DefaultCallbacks})
UserRegs == TotalRegs - NumDefaults

HooksInit ==
    /\ hooks = EmptyRegistry
    /\ stack = <<>>
    /\ log = <<>>
    /\ outcome = [kind |-> "idle", exc |-> Exc(None)]
    /\ call = NoCall
    /\ redispatches = 0

\* the state after `import hooks`: the process-wide registry
GlobalHooksInit ==
    /\ hooks = GlobalRegistry
    /\ stack = <<>>
    /\ log = <<>>
    /\ outcome = [kind |-> "idle", exc |-> Exc(None)]
    /\ call = NoCall
    /\ redispatches = 0

\* register_agent_start .. register_error: append to that event's list.
RegisterHook(h, ev, cb) == [h EXCEPT ![ev] = Append(@, cb)]

Register(ev, cb) ==
    /\ stack = <<>>
    /\ UserRegs < MaxRegs
    /\ hooks' = RegisterHook(hooks, ev, cb)
    /\ log' = <<>>
    /\ outcome' = [kind |-> "idle", exc |-> Exc(None)]
    /\ call' = NoCall
    /\ redispatches' = 0
    /\ UNCHANGED <<stack>>
    /\ UNCHANGED <<streamVars, guardVars, convVars, typeVars, ctxVars, aliasVars>>

\* run_agent_start .. run_error: enter _run_hooks on the event's list;
\* only run_error passes is_error=True.
RunIsError(ev) == ev = "error"

Run(ev, ctx, data) ==
    /\ stack = <<>>
    /\ stack' = <<Frame(ev, ctx, data, RunIsError(ev))>>
    /\ log' = <<>>
    /\ outcome' = [kind |-> "running", exc |-> Exc(None)]
    /\ call' = [ev |-> ev, ctx |-> ctx, data |-> data,
                 registered |-> hooks[ev]]
    /\ redispatches' = 0
    /\ UNCHANGED <<hooks>>
    /\ UNCHANGED <<streamVars, guardVars, convVars, typeVars, ctxVars, aliasVars>>

Top == stack[Len(stack)]
Pop(s) == SubSeq(s, 1, Len(s) - 1)
SetTop(s, f) == [s EXCEPT ![Len(s)] = f]

\* One iteration of `for hook in hooks:` in _run_hooks: the call of the
\* hook and, when it raises, the except handler.
\*   - the handler first evaluates logger.warning(...): with `logger`
\*     unbound that raises NameError inside the handler, which leaves
\*     _run_hooks and every enclosing frame: a frame waiting in its own
\*     handler at line 159 does not catch it, and a frame waiting in a
\*     callback at line 151 catches it and raises NameError again from its
\*     own logger.warning;
\*   - otherwise, unless is_error, it calls self.run_error(context, e).
HookStep ==
    /\ stack # <<>>
    /\ Top.at = "loop"
    /\ Top.i <= Len(hooks[Top.ev])
    /\ hooks[Top.ev][Top.i] \in Callbacks \cup DefaultCallbacks
    /\ LET f  == Top
           cb == hooks[f.ev][f.i]
       IN  /\ log' = Append(log, [cb |-> cb, ev |-> f.ev, ctx |-> f.ctx,
                                  data |-> f.data])
           /\ IF ~Fails(cb)
              THEN /\ stack' = SetTop(stack, [f EXCEPT !.i = @ + 1])
                   /\ UNCHANGED <<outcome, redispatches>>
              ELSE IF ~LoggerBound
              THEN /\ stack' = <<>>
                   /\ outcome' = [kind |-> "raised", exc |-> NameError]
                   /\ UNCHANGED redispatches
              ELSE IF ~f.is_error
              THEN /\ Len(stack) < MaxDepth
                   /\ stack' = Append(SetTop(stack, [f EXCEPT !.at = "handler"]),
                                      Frame("error", f.ctx, Raised(cb), TRUE))
                   /\ redispatches' = redispatches + 1
                   /\ UNCHANGED outcome
              ELSE /\ stack' = SetTop(stack, [f EXCEPT !.i = @ + 1])
                   /\ UNCHANGED <<outcome, redispatches>>
    /\ UNCHANGED <<hooks, call>>
    /\ UNCHANGED <<streamVars, guardVars, convVars, typeVars, ctxVars, aliasVars>>

\* One iteration whose hook calls self.run_<event>(context, data): the
\* frame waits in the call at line 151 while the nested _run_hooks runs
\* (is_error is False: only run_error passes True).
HookStepReenter ==
    /\ stack # <<>>
    /\ Top.at = "loop"
    /\ Top.i <= Len(hooks[Top.ev])
    /\ hooks[Top.ev][Top.i] \in ReentrantCallbacks
    /\ Len(stack) < MaxDepth
    /\ LET f  == Top
           cb == hooks[f.ev][f.i]
       IN  /\ log' = Append(log, [cb |-> cb, ev |-> f.ev, ctx |-> f.ctx,
                                  data |-> f.data])
           /\ stack' = Append(SetTop(stack, [f EXCEPT !.at = "callback"]),
                              Frame(RunsEvent(cb), f.ctx, f.data, FALSE))
    /\ UNCHANGED <<hooks, outcome, call, redispatches>>
    /\ UNCHANGED <<streamVars, guardVars, convVars, typeVars, ctxVars, aliasVars>>

\* One iteration whose hook calls self.register_<event>(hook2) for the
\* event being dispatched: the append lands in the list the `for` loop of
\* line 149 is iterating.
HookStepRegister ==
    /\ stack # <<>>
    /\ Top.at = "loop"
    /\ Top.i <= Len(hooks[Top.ev])
    /\ hooks[Top.ev][Top.i] \in RegisteringCallbacks
    /\ UserRegs < MaxRegs
    /\ LET f  == Top
           cb == hooks[f.ev][f.i]
       IN  /\ log' = Append(log, [cb |-> cb, ev |-> f.ev, ctx |-> f.ctx,
                                  data |-> f.data])
           /\ hooks' = RegisterHook(hooks, f.ev, Registers(cb))
           /\ stack' = SetTop(stack, [f EXCEPT !.i = @ + 1])
    /\ UNCHANGED <<outcome, call, redispatches>>
    /\ UNCHANGED <<streamVars, guardVars, convVars, typeVars, ctxVars, aliasVars>>

\* The loop of _run_hooks is exhausted: the frame returns. A caller frame
\* waiting at line 159, or in a callback at line 151, goes on with its
\* next hook.
HookReturn ==
    /\ stack # <<>>
    /\ Top.at = "loop"
    /\ Top.i > Len(hooks[Top.ev])
    /\ IF Len(stack) = 1
       THEN /\ stack' = <<>>
            /\ outcome' = [kind |-> "returned", exc |-> Exc(None)]
       ELSE /\ LET p == stack[Len(stack) - 1]
               IN  stack' = SetTop(Pop(stack), [p EXCEPT !.at = "loop", !.i = @ + 1])
            /\ UNCHANGED outcome
    /\ UNCHANGED <<hooks, log, call, redispatches>>
    /\ UNCHANGED <<streamVars, guardVars, convVars, typeVars, ctxVars, aliasVars>>

(***************************************************************************)
(* Observations on a dispatch                                              *)
(***************************************************************************)
\* the top-level dispatch has ended, by returning or by raising
Done == stack = <<>> /\ outcome.kind \in {"returned", "raised"}

OfEvent(ev, e) == e.ev = ev
\* the callbacks invoked from the list of event ev, in invocation order
Invoked(ev) ==
    LET sel == SelectSeq(log, LAMBDA e : OfEvent(ev, e))
    IN  [k \in 1..Len(sel) |-> sel[k].cb]

\* number of failing callbacks in a list
RECURSIVE NumFailing(_)
NumFailing(s) ==
    IF s = <<>> THEN 0
    ELSE (IF Fails(Head(s)) THEN 1 ELSE 0) + NumFailing(Tail(s))

\* the invocations of one complete error dispatch for exception exc
ErrorPass(ctx, exc) ==
    [k \in 1..Len(hooks["error"]) |->
        [cb |-> hooks["error"][k], ev |-> "error", ctx |-> ctx, data |-> exc]]

\* the invocations a dispatch of list s makes when every failure is
\* re-dispatched once to every error callback
RECURSIVE IsolatedLog(_, _, _, _)
IsolatedLog(s, ev, ctx, data) ==
    IF s = <<>> THEN <<>>
    ELSE <<[cb |-> Head(s), ev |-> ev, ctx |-> ctx, data |-> data]>>
         \o (IF Fails(Head(s)) THEN ErrorPass(ctx, Raised(Head(s))) ELSE <<>>)
         \o IsolatedLog(Tail(s), ev, ctx, data)

NumErrorFrames ==
    Cardinality({k \in 1..Len(stack) : stack[k].is_error})

\* C1 (as claimed): hook isolation. When a dispatch of a non-error event
\* has ended, it has returned normally and every callback registered for
\* the event has been invoked, whether or not an earlier one raised.
C1_HookIsolation ==
    (Done /\ call.ev \in NonErrorEvents) =>
        /\ outcome.kind = "returned"
        /\ Invoked(call.ev) = hooks[call.ev]

\* C2 (as claimed): cycle breaking. An error dispatch never starts a
\* further error dispatch, dispatch nesting never exceeds two levels, and
\* an error dispatch (direct call of run_error, or a re-dispatch) runs every
\* error callback even when one of them fails, and returns normally.
C2_ErrorCycleBroken ==
    /\ Len(stack) <= 2
    /\ NumErrorFrames <= 1
    /\ (Done /\ call.ev = "error") =>
          /\ outcome.kind = "returned"
          /\ redispatches = 0
          /\ Invoked("error") = hooks["error"]
    /\ (Done /\ call.ev \in NonErrorEvents) =>
          Len(Invoked("error")) = redispatches * Len(hooks["error"])

\* C3 (as claimed): each failure of a callback in a non-error dispatch
\* causes exactly one error dispatch, which hands the same context and the
\* raised exception to every error callback once: n callbacks of which f
\* fail, with m error callbacks, give n + f*m invocations.
C3_OneErrorDispatchPerFailure ==
    (Done /\ call.ev \in NonErrorEvents) =>
        LET n == Len(hooks[call.ev])
            f == NumFailing(hooks[call.ev])
            m == Len(hooks["error"])
        IN  /\ redispatches = f
            /\ Len(log) = n + f * m
            /\ log = IsolatedLog(hooks[call.ev], call.ev, call.ctx, call.data)

\* a register_<event> step appends one callback to one list
IsRegisterStep ==
    \E ev \in Events, cb \in Callbacks :
        hooks' = [hooks EXCEPT ![ev] = Append(@, cb)]

\* exactly the callbacks of the dispatched event ran, each once, in
\* registration order; any other invocation is of an error callback
DispatchExact ==
    Done =>
        /\ Invoked(call.ev) = hooks[call.ev]
        /\ \A k \in 1..Len(log) : log[k].ev \in {call.ev, "error"}

\* C4 (as claimed): the five lists are independent and ordered. A
\* registration appends to one list only, a dispatch changes no list, and
\* a dispatch invokes exactly the callbacks of its event, each once, in
\* registration order (error callbacks only through a re-dispatch).
C4_IndependentOrderedLists ==
    [][ /\ (hooks' # hooks) => (stack = <<>> /\ stack' = <<>> /\ IsRegisterStep)
        /\ DispatchExact' ]_vars

(***************************************************************************)
(*                            STREAM ACCUMULATOR                           *)
(***************************************************************************)

\* BlockType (stream.py:43-48); callers here use two of the four members
BlockTypes == {"text", "tool", "structured", "reasoning"}
Types == {"text", "tool"}
\* block indices a caller addresses: negative, zero, sparse
Indices == {-1, 2}
\* text deltas
Texts == {"a", "b"}

\* JSON values: a dict (its key -> value map) or a non-dict (a string, null)
EmptyMap == [k \in {} |-> 0]
JDict(m) == [isdict |-> TRUE, m |-> m, s |-> ""]
JStr(x)  == [isdict |-> FALSE, m |-> EmptyMap, s |-> x]
JNull    == JStr(None)
\* JSON fragments a caller passes to merge_json
Fragments == {JDict([a |-> 1]), JDict([b |-> 2]), JDict([a |-> 2]), JStr("x")}

\* dict.update(other): keys of other overwrite, other keys are kept
DictUpdate(m, other) ==
    [k \in DOMAIN m \cup DOMAIN other |->
        IF k \in DOMAIN other THEN other[k] ELSE m[k]]

\* a constructor that leaves json_content unset (None)
BlockInit_json_none(block_type) ==
    [type |-> block_type, content |-> "", json_content |-> JNull,
     closed |-> FALSE, tool_name |-> None, tool_id |-> None]

\* _Block.__init__
BlockInit(block_type) ==
    [type |-> block_type, content |-> "", json_content |-> JDict(EmptyMap),
     closed |-> FALSE, tool_name |-> None, tool_id |-> None]

\* add_text without the closed check
add_text_unguarded(b, text) == [b EXCEPT !.content = @ \o text]

\* add_text that puts the delta in front of the buffer
add_text_prepend(b, text) ==
    IF ~b.closed THEN [b EXCEPT !.content = text \o @] ELSE b

\* _Block.add_text
add_text(b, text) ==
    IF ~b.closed THEN [b EXCEPT !.content = @ \o text] ELSE b

\* add_json in which the accumulated keys win over the fragment's
add_json_old_keys_win(b, json_part) ==
    IF ~b.closed
    THEN IF json_part.isdict /\ b.json_content.isdict
         THEN [b EXCEPT !.json_content = JDict(DictUpdate(json_part.m, @.m))]
         ELSE [b EXCEPT !.json_content = json_part]
    ELSE b

\* _Block.add_json
add_json(b, json_part) ==
    IF ~b.closed
    THEN IF json_part.isdict /\ b.json_content.isdict
         THEN [b EXCEPT !.json_content = JDict(DictUpdate(@.m, json_part.m))]
         ELSE [b EXCEPT !.json_content = json_part]
    ELSE b

\* close that flips the flag
close_toggle(b) == [b EXCEPT !.closed = ~@]

\* _Block.close
close(b) == [b EXCEPT !.closed = TRUE]

\* block() without the membership test: a new block every time
block_always_new(bs, index, block_type) ==
    [k \in DOMAIN bs \cup {index} |->
        IF k = index THEN BlockInit(block_type) ELSE bs[k]]

\* _OutputState.block: the blocks mapping after the call (the block is
\* created when the index is new)
block(bs, index, block_type) ==
    IF index \notin DOMAIN bs
    THEN [k \in DOMAIN bs \cup {index} |->
            IF k = index THEN BlockInit(block_type) ELSE bs[k]]
    ELSE bs

\* `return self.blocks[index]`: a missing key raises KeyError
LookupRaises(bs, index) == index \notin DOMAIN bs

\* _OutputState.__init__
StreamInit ==
    /\ blocks = EmptyMap
    /\ item = None
    /\ lastOp = [op |-> None, index |-> 0, type |-> None, text |-> "",
                 json |-> JNull, existed |-> FALSE, wasClosed |-> FALSE,
                 raised |-> FALSE]
    /\ nops = 0

\* what a call met: did the index exist, was its block closed
Met(op, index, t, text, json, bs1) ==
    [op |-> op, index |-> index, type |-> t, text |-> text, json |-> json,
     existed |-> index \in DOMAIN blocks,
     wasClosed |-> index \in DOMAIN blocks /\ blocks[index].closed,
     raised |-> LookupRaises(bs1, index)]

\* the method a call applies to the block that state.block returned
Method(op, b, text, json) ==
    CASE op = "append_text" -> add_text(b, text)
      [] op = "merge_json"  -> add_json(b, json)
      [] op = "close"       -> close(b)
      [] OTHER              -> b

\* state.block(index, t), then the method of the returned block
OnBlock(op, index, t, text, json) ==
    LET bs1 == block(blocks, index, t)
    IN  /\ nops' = nops + 1
        /\ lastOp' = Met(op, index, t, text, json, bs1)
        /\ blocks' = IF LookupRaises(bs1, index) THEN bs1
                     ELSE [bs1 EXCEPT ![index] = Method(op, @, text, json)]
        /\ UNCHANGED item
        /\ UNCHANGED <<hookVars, guardVars, convVars, typeVars, ctxVars, aliasVars>>

\* get_or_create(index, block_type): state.block(index, block_type)
GetOrCreate(index, t) ==
    /\ nops < MaxOps
    /\ OnBlock("get_or_create", index, t, "", JNull)

\* append_text(index, text): state.block(index, t).add_text(text)
AppendText(index, t, text) ==
    /\ nops < MaxOps
    /\ OnBlock("append_text", index, t, text, JNull)

\* merge_json(index, fragment): state.block(index, t).add_json(fragment)
MergeJson(index, t, frag) ==
    /\ nops < MaxOps
    /\ OnBlock("merge_json", index, t, "", frag)

\* close(index): state.block(index, t).close()
Close(index, t) ==
    /\ nops < MaxOps
    /\ OnBlock("close", index, t, "", JNull)

StreamNext ==
    \/ \E i \in Indices, t \in Types : GetOrCreate(i, t)
    \/ \E i \in Indices, t \in Types, x \in Texts : AppendText(i, t, x)
    \/ \E i \in Indices, t \in Types, f \in Fragments : MergeJson(i, t, f)
    \/ \E i \in Indices, t \in Types : Close(i, t)

(***************************************************************************)
(* Observations on the accumulator                                         *)
(***************************************************************************)
\* the step is an accumulator call
IsCall == nops' = nops + 1
IsCallOf(op) == IsCall /\ lastOp'.op = op

\* C5: closed blocks are frozen. A block that is closed stays in the
\* mapping, stays closed and keeps its text buffer and its JSON value
\* through every later call, and a call addressed to a closed block does
\* not raise.
C5_ClosedBlocksFrozen ==
    [][ /\ \A i \in DOMAIN blocks :
              blocks[i].closed =>
                  /\ i \in DOMAIN blocks'
                  /\ blocks'[i].closed
                  /\ blocks'[i].content = blocks[i].content
                  /\ blocks'[i].json_content = blocks[i].json_content
        /\ (IsCall /\ lastOp'.wasClosed) => ~lastOp'.raised ]_vars

\* a text delta has been addressed to a closed block holding other text
C5_Witness ==
    /\ lastOp.op = "append_text"
    /\ lastOp.wasClosed
    /\ lastOp.text = "a"
    /\ blocks[lastOp.index].content = "b"
    /\ blocks[lastOp.index].json_content = JDict([a |-> 1])

\* C6: close is idempotent. A close addressed to a block that is already
\* closed (the second close) leaves the whole accumulator state, every
\* field of the block included, as the first close left it, and does not
\* raise; neither does the first.
C6_CloseIdempotent ==
    [][ IsCallOf("close") =>
          /\ ~lastOp'.raised
          /\ blocks'[lastOp'.index].closed
          /\ lastOp'.wasClosed => blocks' = blocks ]_vars

\* a block with content has been closed twice
C6_Witness ==
    /\ lastOp.op = "close"
    /\ lastOp.wasClosed
    /\ blocks[lastOp.index].content # ""
    /\ blocks[lastOp.index].json_content # JDict(EmptyMap)

\* the JSON value a call finds at an index (a new block holds {})
JsonBefore(i) ==
    IF i \in DOMAIN blocks THEN blocks[i].json_content ELSE JDict(EmptyMap)

\* C7: merge law for an open block. If the accumulated value and the
\* fragment are both objects the result is an object holding every key of
\* either, with the fragment's value for the fragment's keys and the old
\* value for the others; in every other case the result is the fragment.
\* In particular {"a":1} merged with {"b":2} is {"a":1,"b":2}, and {"a":1}
\* merged with "x" is "x".
C7_MergeLaw ==
    [][ (IsCallOf("merge_json") /\ ~lastOp'.wasClosed) =>
          LET i    == lastOp'.index
              old  == JsonBefore(i)
              frag == lastOp'.json
              new  == blocks'[i].json_content
          IN  /\ (old.isdict /\ frag.isdict) =>
                    /\ new.isdict
                    /\ DOMAIN new.m = DOMAIN old.m \cup DOMAIN frag.m
                    /\ \A k \in DOMAIN frag.m : new.m[k] = frag.m[k]
                    /\ \A k \in DOMAIN old.m \ DOMAIN frag.m : new.m[k] = old.m[k]
              /\ ~(old.isdict /\ frag.isdict) => new = frag
              /\ (old = JDict([a |-> 1]) /\ frag = JDict([b |-> 2])) =>
                    new = JDict([a |-> 1, b |-> 2])
              /\ (old = JDict([a |-> 1]) /\ frag = JStr("x")) => new = JStr("x")
       ]_vars

\* {"b":2} has been merged into an open block holding {"a":1}
C7_Witness ==
    /\ lastOp.op = "merge_json"
    /\ ~lastOp.wasClosed
    /\ lastOp.existed
    /\ lastOp.json = JDict([b |-> 2])
    /\ blocks[lastOp.index].json_content = JDict([a |-> 1, b |-> 2])

\* C8: get_or_create is stable. No call removes an index or changes the
\* type of an existing block, and a get_or_create addressed to an existing
\* index, with whatever type, leaves the block (type, text, JSON, closed
\* flag) and the rest of the mapping as they were.
C8_GetOrCreateStable ==
    [][ /\ \A i \in DOMAIN blocks :
              /\ i \in DOMAIN blocks'
              /\ blocks'[i].type = blocks[i].type
        /\ (IsCallOf("get_or_create") /\ lastOp'.existed) =>
              /\ blocks' = blocks
              /\ ~lastOp'.raised ]_vars

\* get_or_create has been called, with another type, on a block that
\* holds text and JSON
C8_Witness ==
    /\ lastOp.op = "get_or_create"
    /\ lastOp.existed
    /\ lastOp.type # blocks[lastOp.index].type
    /\ blocks[lastOp.index].content = "ab"
    /\ blocks[lastOp.index].json_content = JStr("x")

\* C9: no call raises, and a call addressed to an index not seen before
\* creates the block lazily, open and empty, before it acts: get_or_create
\* leaves it open and empty with the given type, append_text leaves the
\* delta as its text, merge_json leaves the fragment as its JSON, and close
\* leaves an empty closed block.
C9_LazyCreation ==
    /\ ~lastOp.raised
    /\ (lastOp.op # None /\ ~lastOp.existed) =>
          /\ lastOp.index \in DOMAIN blocks
          /\ LET b == blocks[lastOp.index]
             IN  /\ b.type = lastOp.type
                 /\ b.content = (IF lastOp.op = "append_text" THEN lastOp.text ELSE "")
                 /\ b.json_content = (IF lastOp.op = "merge_json" THEN lastOp.json
                                      ELSE JDict(EmptyMap))
                 /\ b.closed = (lastOp.op = "close")

\* a negative index, never seen before and addressed after a larger one,
\* has been closed
C9_Witness ==
    /\ lastOp.op = "close"
    /\ ~lastOp.existed
    /\ lastOp.index < 0
    /\ 2 \in DOMAIN blocks
    /\ blocks[lastOp.index].closed
    /\ blocks[lastOp.index].content = ""

\* ResponseStatusEnum (stream.py:50-54)
ResponseStatusEnum == {"in_progress", "completed", "error"}

\* The item the accumulator holds for a caller who asks for the current
\* item: _OutputState.item is the only one, and it is shared by all indices.
current_item(index) == item
StatusOf(it) == IF it = None THEN None ELSE it.status

\* the text buffer a call finds at an index (a new block holds "")
TextBefore(i) ==
    IF i \in DOMAIN blocks THEN blocks[i].content ELSE ""

\* the left-to-right merge of an accumulated value with one more fragment
LeftMerge(old, frag) ==
    IF old.isdict /\ frag.isdict THEN JDict(frag.m @@ old.m) ELSE frag

C10_StatusDistinguishesPhases ==
    \A i \in DOMAIN blocks :
        /\ StatusOf(current_item(i)) \in ResponseStatusEnum
        /\ blocks[i].closed <=> StatusOf(current_item(i)) = "completed"
        /\ ~blocks[i].closed <=> StatusOf(current_item(i)) = "in_progress"

(***************************************************************************)
(*                             GUARDRAIL RUNNER                            *)
(*                    src/src/agents/core/guardrail.py                     *)
(***************************************************************************)
Agents   == {"agent1"}
\* what a guardrail is asked to judge: the turn's input or the agent's output
Payloads == {"ok", "bad"}
RunIds   == 1..MaxRuns

\* Values a guardrail_function field can hold: two plain functions, two
\* coroutine functions with the same bodies, and a value that is no function.
SyncFunctions  == {"sync_flag", "sync_pass"}
AsyncFunctions == {"async_flag", "async_pass"}
Functions      == SyncFunctions \cup AsyncFunctions \cup {"not_callable"}

\* the check that a function performs, whether it is written sync or async
BodyOf(f) == IF f \in {"sync_flag", "async_flag"} THEN "flag" ELSE "pass"

NoValue == [kind |-> "None"]

\* class GuardrailFunctionOutput
GuardrailFunctionOutput(output_info, tripwire_triggered) ==
    [kind |-> "GuardrailFunctionOutput",
     output_info |-> output_info,
     tripwire_triggered |-> tripwire_triggered]

\* The body of a check: it reports what it was given and trips on "bad".
Body(b, args) ==
    GuardrailFunctionOutput(<<b>> \o args, b = "flag" /\ args[3] = "bad")

\* the coroutine object an async function returns when called
Coroutine(f, args) == [kind |-> "coroutine", cr_code |-> f, cr_args |-> args]

callable_any(f) == TRUE
\* builtin callable()
callable(f) == f \in SyncFunctions \cup AsyncFunctions

\* guardrail_function(context, agent, payload): the value the call returns.
\* Calling a value that is no function raises TypeError.
Invoke(f, args) ==
    IF f \in SyncFunctions THEN [raised |-> FALSE, value |-> Body(BodyOf(f), args)]
    ELSE IF f \in AsyncFunctions THEN [raised |-> FALSE, value |-> Coroutine(f, args)]
    ELSE [raised |-> TRUE, value |-> NoValue]

isawaitable_never(v) == FALSE
\* inspect.isawaitable
isawaitable(v) == v.kind = "coroutine"

\* the value `await v` evaluates to once v has resolved
Awaited(v) == Body(BodyOf(v.cr_code), v.cr_args)

\* dataclass InputGuardrail / OutputGuardrail
Guardrail(cls, f) == [cls |-> cls, guardrail_function |-> f, name |-> None]
NoGuardrail == Guardrail(None, None)

\* class InputGuardrailResult
InputGuardrailResult(g, out) ==
    [kind |-> "InputGuardrailResult", guardrail |-> g, output |-> out,
     agent |-> None, agent_output |-> None]

\* class OutputGuardrailResult
OutputGuardrailResult(g, agent_output, agent, out) ==
    [kind |-> "OutputGuardrailResult", guardrail |-> g, output |-> out,
     agent |-> agent, agent_output |-> agent_output]

NoResult ==
    [kind |-> "None", guardrail |-> NoGuardrail, output |-> NoValue,
     agent |-> None, agent_output |-> None]

\* the payload a guardrail of class cls is run on
PayloadOf(cls, t) == IF cls = "InputGuardrail" THEN t.input ELSE t.agent_output

\* the frame of one run() coroutine
IdleRun ==
    [pc |-> "idle", self |-> NoGuardrail, calls |-> 0, args |-> <<>>,
     result |-> NoValue, resolved |-> FALSE, suspended |-> FALSE,
     ret |-> NoResult, exc |-> None]

GuardInit ==
    /\ turn = [begun |-> FALSE, context |-> None, agent |-> None,
               input |-> None, agent_output |-> None]
    /\ runs = [r \in RunIds |-> IdleRun]
    /\ finished = <<>>


\* The agent loop starts a turn: the values every guardrail of the turn gets.
BeginTurn(ctx, agent, inp, out) ==
    /\ ~turn.begun
    /\ turn' = [begun |-> TRUE, context |-> ctx, agent |-> agent,
                input |-> inp, agent_output |-> out]
    /\ UNCHANGED <<runs, finished>>
    /\ UNCHANGED <<hookVars, streamVars, convVars, typeVars, ctxVars, aliasVars>>

ReturnResult_tripwire(g, t, out) ==
    IF out.kind = "GuardrailFunctionOutput" /\ out.tripwire_triggered
    THEN [raised |-> TRUE, exc |-> "InputGuardrailTripwireTriggered",
          ret |-> NoResult]
    ELSE [raised |-> FALSE, exc |-> None,
          ret |-> IF g.cls = "InputGuardrail"
                  THEN InputGuardrailResult(g, out)
                  ELSE OutputGuardrailResult(g, t.agent_output, t.agent, out)]
\* the return statement of run(): it wraps the check's value, whatever it is
ReturnResult(g, t, out) ==
    [raised |-> FALSE, exc |-> None,
     ret |-> IF g.cls = "InputGuardrail"
             THEN InputGuardrailResult(g, out)
             ELSE OutputGuardrailResult(g, t.agent_output, t.agent, out)]

\* the frame of a run() that has ended with `return` or with an exception
Ended(fr, rr) ==
    IF rr.raised THEN [fr EXCEPT !.pc = "raised", !.exc = rr.exc]
    ELSE [fr EXCEPT !.pc = "done", !.ret = rr.ret]

SetRun_shared(rs, r, fr) == [q \in DOMAIN rs |-> fr]
\* the locals of a run() call belong to that call alone
SetRun(rs, r, fr) == [rs EXCEPT ![r] = fr]

\* run() from its first line to its first suspension or its end.  An awaited
\* coroutine that finishes without yielding does not suspend run().
RunToAwait(r, cls, f) ==
    LET g    == Guardrail(cls, f)
        args == <<turn.context, turn.agent, PayloadOf(cls, turn)>>
        fr0  == [IdleRun EXCEPT !.self = g]
        c    == Invoke(f, args)
        fr1  == [fr0 EXCEPT !.calls = 1, !.args = args, !.result = c.value]
    IN  /\ turn.begun
        /\ IF ~callable(f)
           THEN /\ runs' = SetRun(runs, r, [fr0 EXCEPT !.pc = "raised",
                                                       !.exc = "UserError"])
                /\ finished' = Append(finished, r)
           ELSE IF c.raised
           THEN /\ runs' = SetRun(runs, r, [fr1 EXCEPT !.pc = "raised",
                                                       !.exc = "TypeError"])
                /\ finished' = Append(finished, r)
           ELSE IF isawaitable(c.value)
           THEN \/ /\ runs' = SetRun(runs, r,
                                [fr1 EXCEPT !.pc = "awaiting",
                                            !.suspended = TRUE])
                   /\ UNCHANGED finished
                \/ /\ runs' = SetRun(runs, r,
                                Ended([fr1 EXCEPT !.result = Awaited(c.value),
                                                  !.resolved = TRUE],
                                      ReturnResult(g, turn, Awaited(c.value))))
                   /\ finished' = Append(finished, r)
           ELSE /\ runs' = SetRun(runs, r,
                                  Ended(fr1, ReturnResult(g, turn, c.value)))
                /\ finished' = Append(finished, r)
        /\ UNCHANGED turn
        /\ UNCHANGED <<hookVars, streamVars, convVars, typeVars, ctxVars, aliasVars>>

\* InputGuardrail.run(context, agent, input)
InputGuardrailRun(r, f) ==
    /\ runs[r].pc = "idle"
    /\ RunToAwait(r, "InputGuardrail", f)

\* OutputGuardrail.run(context, agent, agent_output)
OutputGuardrailRun(r, f) ==
    /\ runs[r].pc = "idle"
    /\ RunToAwait(r, "OutputGuardrail", f)

\* The awaitable a suspended run() waits for resolves.
AwaitableResolves(r) ==
    /\ runs[r].pc = "awaiting"
    /\ ~runs[r].resolved
    /\ runs' = SetRun(runs, r, [runs[r] EXCEPT !.resolved = TRUE])
    /\ UNCHANGED <<turn, finished>>
    /\ UNCHANGED <<hookVars, streamVars, convVars, typeVars, ctxVars, aliasVars>>

\* run() resumes with the awaited value and returns.
RunResume(r) ==
    /\ runs[r].pc = "awaiting"
    /\ runs[r].resolved
    /\ runs' = SetRun(runs, r,
                 Ended([runs[r] EXCEPT !.result = Awaited(runs[r].result)],
                       ReturnResult(runs[r].self, turn,
                                    Awaited(runs[r].result))))
    /\ finished' = Append(finished, r)
    /\ UNCHANGED turn
    /\ UNCHANGED <<hookVars, streamVars, convVars, typeVars, ctxVars, aliasVars>>

GuardrailNext ==
    \/ \E ctx \in Contexts, a \in Agents, i \in Payloads, o \in Payloads :
          BeginTurn(ctx, a, i, o)
    \/ \E r \in RunIds, f \in Functions : InputGuardrailRun(r, f)
    \/ \E r \in RunIds, f \in Functions : OutputGuardrailRun(r, f)
    \/ \E r \in RunIds : AwaitableResolves(r)
    \/ \E r \in RunIds : RunResume(r)

(***************************************************************************)
(* Observations on guardrail runs                                          *)
(***************************************************************************)
Started(r)   == runs[r].pc # "idle"
Over(r)      == runs[r].pc \in {"done", "raised"}
FunctionOf(r) == runs[r].self.guardrail_function
ArgsOf(r) ==
    <<turn.context, turn.agent, PayloadOf(runs[r].self.cls, turn)>>
\* what the check of run r returns, directly or through its awaitable
CheckOutput(r) == Body(BodyOf(FunctionOf(r)), ArgsOf(r))
\* the check of run r has handed its output to run()
CheckReturned(r) ==
    /\ Started(r)
    /\ callable(FunctionOf(r))
    /\ FunctionOf(r) \in AsyncFunctions => runs[r].resolved /\ Over(r)

\* C11: a guardrail run only reports.  Once the check has returned its
\* output, tripwire set or not, run() has returned normally, without any
\* exception, a result whose output is that output (same tripwire flag,
\* same output_info) and whose guardrail is the guardrail that was run; the
\* result of an output guardrail also carries the agent and the
\* agent_output passed in.
C11_RunOnlyReports ==
    \A r \in RunIds :
        CheckReturned(r) =>
            /\ runs[r].pc = "done"
            /\ runs[r].exc = None
            /\ runs[r].ret.output = CheckOutput(r)
            /\ runs[r].ret.output.tripwire_triggered =
                   CheckOutput(r).tripwire_triggered
            /\ runs[r].ret.output.output_info = CheckOutput(r).output_info
            /\ runs[r].ret.guardrail = runs[r].self
            /\ runs[r].self.cls = "InputGuardrail" =>
                   runs[r].ret.kind = "InputGuardrailResult"
            /\ runs[r].self.cls = "OutputGuardrail" =>
                   /\ runs[r].ret.kind = "OutputGuardrailResult"
                   /\ runs[r].ret.agent = turn.agent
                   /\ runs[r].ret.agent_output = turn.agent_output

\* an input and an output guardrail have both reported a tripped wire
C11_Witness ==
    \E r, q \in RunIds :
        /\ runs[r].pc = "done" /\ runs[q].pc = "done"
        /\ runs[r].self.cls = "InputGuardrail"
        /\ runs[q].self.cls = "OutputGuardrail"
        /\ runs[r].ret.output.tripwire_triggered
        /\ runs[q].ret.output.tripwire_triggered

\* C12: when guardrail_function is not callable, run() raises UserError
\* before any invocation of the check and produces no result.
C12_NotCallableIsUserError ==
    \A r \in RunIds :
        (Started(r) /\ FunctionOf(r) = "not_callable") =>
            /\ runs[r].pc = "raised"
            /\ runs[r].exc = "UserError"
            /\ runs[r].calls = 0
            /\ runs[r].ret = NoResult

\* both classes of guardrail have been run with a target that is no function
C12_Witness ==
    \E r, q \in RunIds :
        /\ Started(r) /\ Started(q)
        /\ FunctionOf(r) = "not_callable" /\ FunctionOf(q) = "not_callable"
        /\ runs[r].self.cls = "InputGuardrail"
        /\ runs[q].self.cls = "OutputGuardrail"

\* run r and run q ran the same check on the same payload, r with the
\* function that returns its output directly, q with the one that returns
\* an awaitable of it
SyncAsyncPair(r, q) ==
    /\ runs[r].pc = "done" /\ runs[q].pc = "done"
    /\ FunctionOf(r) \in SyncFunctions /\ FunctionOf(q) \in AsyncFunctions
    /\ BodyOf(FunctionOf(r)) = BodyOf(FunctionOf(q))
    /\ runs[r].self.cls = runs[q].self.cls

\* C13: sync/await normalization.  A run invokes the check exactly once, with
\* (context, agent, payload); a check returning its output directly and a
\* check returning an awaitable of the same output give equal results; a run
\* is suspended only on an awaitable, stays so only while that awaitable is
\* unresolved (once it has resolved the run can resume, and it ends only
\* after it has resolved), and then completes with the awaited output.
C13_SyncAwaitNormalization ==
    /\ \A r \in RunIds :
          /\ runs[r].pc \in {"awaiting", "done"} =>
                /\ runs[r].calls = 1
                /\ runs[r].args = ArgsOf(r)
          /\ runs[r].pc = "done" =>
                /\ runs[r].ret.output.kind = "GuardrailFunctionOutput"
                /\ runs[r].ret.output = CheckOutput(r)
          /\ (runs[r].pc = "awaiting" \/ runs[r].suspended) =>
                FunctionOf(r) \in AsyncFunctions
          /\ (runs[r].pc = "awaiting" /\ runs[r].resolved) =>
                ENABLED RunResume(r)
          /\ (runs[r].pc = "awaiting" /\ ~runs[r].resolved) =>
                ~ENABLED RunResume(r)
          /\ (runs[r].suspended /\ Over(r)) =>
                runs[r].resolved /\ runs[r].pc = "done"
    /\ \A r, q \in RunIds :
          SyncAsyncPair(r, q) =>
              /\ runs[r].ret.output = runs[q].ret.output
              /\ runs[r].ret.agent = runs[q].ret.agent
              /\ runs[r].ret.agent_output = runs[q].ret.agent_output
              /\ runs[r].ret.kind = runs[q].ret.kind

\* a sync check and its awaitable twin have both completed, the second one
\* after having been suspended
C13_Witness ==
    \E r, q \in RunIds : SyncAsyncPair(r, q) /\ runs[q].suspended

\* what run() of guardrail g ends with when it is the only run of the turn
SoloOutcome(g) ==
    IF g.guardrail_function = "not_callable"
    THEN [pc |-> "raised", exc |-> "UserError", ret |-> NoResult]
    ELSE [pc |-> "done", exc |-> None,
          ret |-> LET out == Body(BodyOf(g.guardrail_function),
                                  <<turn.context, turn.agent,
                                    PayloadOf(g.cls, turn)>>)
                  IN IF g.cls = "InputGuardrail"
                     THEN InputGuardrailResult(g, out)
                     ELSE OutputGuardrailResult(g, turn.agent_output,
                                                turn.agent, out)]

\* Whatever the other runs are doing, a run that has ended has ended as it
\* would alone, and a run that has not ended can take its next step.
EndsAsAlone ==
    \A r \in RunIds :
        /\ Over(r) =>
              /\ runs[r].pc = SoloOutcome(runs[r].self).pc
              /\ runs[r].exc = SoloOutcome(runs[r].self).exc
              /\ runs[r].ret = SoloOutcome(runs[r].self).ret
        /\ runs[r].pc = "awaiting" =>
              /\ runs[r].result = Coroutine(FunctionOf(r), ArgsOf(r))
              /\ ENABLED (AwaitableResolves(r) \/ RunResume(r))
        /\ (runs[r].pc = "idle" /\ turn.begun) =>
              \A f \in Functions :
                  /\ ENABLED InputGuardrailRun(r, f)
                  /\ ENABLED OutputGuardrailRun(r, f)

\* A step of one run leaves the frame of every other run as it was.
NoInterference ==
    \A r \in RunIds :
        runs'[r] # runs[r] => \A q \in RunIds \ {r} : runs'[q] = runs[q]

\* C14: runs of distinct guardrails on one turn are independent.  In every
\* interleaving a step of one run changes nothing of another run, a run that
\* has ended has ended as it would alone, and a run that has not ended can
\* take its next step (start, have its awaitable resolve, or resume)
\* whatever the state of the other runs, so no completion order is imposed.
C14_RunsIndependent == []EndsAsAlone /\ [][NoInterference]_vars

\* two suspended runs have completed in the order opposite to their numbers
\* while each kept its own result
C14_Witness ==
    /\ finished = <<2, 1>>
    /\ runs[1].suspended /\ runs[2].suspended
    /\ runs[1].pc = "done" /\ runs[2].pc = "done"
    /\ runs[1].ret # runs[2].ret

(***************************************************************************)
(*                              ITEM CONVERTER                             *)
(*               src/src/agents/core/payloads2/completion.py               *)
(***************************************************************************)
\* A JSON text is the sequence of its tokens.  Scalars are kept as their
\* token, so the string "1" and the number 1 stay different values.
StringText    == ("\"q\"" :> "q") @@ ("\"x\"" :> "x") @@ ("\"r\"" :> "r")
StringTokens  == DOMAIN StringText
ScalarTokens  == StringTokens \cup {"1", "true", "false", "null"}

\* json.loads on the members of an object, from token i on: "k" : v , ...
\* A later member with the same key wins, as in a Python dict.
RECURSIVE ParseMembers(_, _, _)
ParseMembers(toks, i, acc) ==
    IF i + 3 > Len(toks) THEN [ok |-> FALSE, value |-> JNull]
    ELSE IF ~(/\ toks[i] \in StringTokens
              /\ toks[i + 1] = ":"
              /\ toks[i + 2] \in ScalarTokens)
    THEN [ok |-> FALSE, value |-> JNull]
    ELSE LET k  == StringText[toks[i]]
             m  == [x \in DOMAIN acc \cup {k} |->
                       IF x = k THEN toks[i + 2] ELSE acc[x]]
         IN  IF toks[i + 3] = "}"
             THEN [ok |-> i + 3 = Len(toks), value |-> JDict(m)]
             ELSE IF toks[i + 3] = ","
             THEN ParseMembers(toks, i + 4, m)
             ELSE [ok |-> FALSE, value |-> JNull]

\* json.loads on the elements of an array, from token i on: v , ...
RECURSIVE ParseElements(_, _)
ParseElements(toks, i) ==
    IF i + 1 > Len(toks) \/ toks[i] \notin ScalarTokens THEN FALSE
    ELSE IF toks[i + 1] = "]" THEN i + 1 = Len(toks)
    ELSE IF toks[i + 1] = "," THEN ParseElements(toks, i + 2)
    ELSE FALSE

\* the text a token sequence stands for
RECURSIVE Text(_)
Text(toks) == IF toks = <<>> THEN "" ELSE Head(toks) \o Text(Tail(toks))

\* json.loads(s): ok is FALSE where Python raises json.JSONDecodeError.  An
\* object is parsed to a dict; any other JSON value is kept by its text.
json_loads(toks) ==
    IF toks = <<>> THEN [ok |-> FALSE, value |-> JNull]
    ELSE IF Len(toks) = 1
    THEN [ok |-> toks[1] \in ScalarTokens, value |-> JStr(toks[1])]
    ELSE IF toks = <<"{", "}">> THEN [ok |-> TRUE, value |-> JDict(EmptyMap)]
    ELSE IF toks[1] = "{" THEN ParseMembers(toks, 2, EmptyMap)
    ELSE IF toks = <<"[", "]">> THEN [ok |-> TRUE, value |-> JStr("[]")]
    ELSE IF toks[1] = "[" THEN [ok |-> ParseElements(toks, 2),
                                value |-> JStr(Text(toks))]
    ELSE [ok |-> FALSE, value |-> JNull]

BUILTIN_TOOL_CALL_TYPES == {"web_search_call", "file_search_call", "computer_call"}

\* enum ResponseStatus
ResponseStatus == {"completed", "failed", "in_progress", "incomplete"}
\* enum StopReason
StopReason ==
    {"end_turn", "max_tokens", "stop_sequence", "tool_use", "content_filter"}

\* dict.get(k, d) on a raw block
Get(obj, k, d) == IF k \in DOMAIN obj THEN obj[k] ELSE d
\* pydantic accepts v for a field declared `str`
IsStr(v) == v # None

\* Construction of a canonical model: ok is FALSE where pydantic raises
\* ValidationError.
TextPart(text) ==
    [ok |-> IsStr(text),
     value |-> [type |-> "text", text |-> text, annotations |-> None]]

ToolUsePart(id, name, input, status) ==
    [ok |-> IsStr(id) /\ IsStr(name) /\ input.isdict,
     value |-> [type |-> "tool_use", id |-> id, name |-> name,
                input |-> input, status |-> status]]

ToolReferencePart(call_id, tool_name, status, data) ==
    [ok |-> IsStr(call_id),
     value |-> [type |-> "tool_reference", call_id |-> call_id,
                tool_name |-> tool_name, status |-> status, data |-> data]]

MessageOutput(id, role, provider_role, status, content, stop_reason, stop_sequence) ==
    [ok |-> /\ IsStr(id)
            /\ role \in {"assistant", "user"}
            /\ stop_reason \in StopReason \cup {None},
     value |-> [type |-> "message", id |-> id, role |-> role,
                provider_role |-> provider_role, status |-> status,
                content |-> content, stop_reason |-> stop_reason,
                stop_sequence |-> stop_sequence]]

NoItem == MessageOutput(None, None, None, None, <<>>, None, None).value

get_status_raw(obj) == Get(obj, "status", "completed")
\* _get_status(obj): a value outside the enum, None included, is read as
\* COMPLETED.
get_status(obj) ==
    IF Get(obj, "status", "completed") \in ResponseStatus
    THEN Get(obj, "status", "completed")
    ELSE "completed"

\* what one pass of the loop body does with a block
Emit(it)    == [kind |-> "item", item |-> it, exc |-> None]
Raise(exc)  == [kind |-> "raise", item |-> NoItem, exc |-> exc]
Skip        == [kind |-> "skip", item |-> NoItem, exc |-> None]
\* items.append(Model(...)), or the ValidationError of the construction
AppendBuilt(built) == IF built.ok THEN Emit(built.value) ELSE Raise("ValidationError")

RECURSIVE TextEntries_text_only(_)
TextEntries_text_only(content) ==
    IF content = <<>> THEN <<>>
    ELSE IF Get(Head(content), "type", None) = "text"
    THEN <<Head(content)>> \o TextEntries_text_only(Tail(content))
    ELSE TextEntries_text_only(Tail(content))
\* the entries of a message block's content that become text parts
RECURSIVE TextEntries(_)
TextEntries(content) ==
    IF content = <<>> THEN <<>>
    ELSE IF Get(Head(content), "type", None) \in {"output_text", "text"}
    THEN <<Head(content)>> \o TextEntries(Tail(content))
    ELSE TextEntries(Tail(content))

\* parts = [TextPart(text=content.get("text", "")) for content in ... if ...]
Parts(obj) ==
    LET es == TextEntries(Get(obj, "content", <<>>))
    IN  [i \in 1..Len(es) |-> TextPart(Get(es[i], "text", ""))]

\* the message branch of the loop body
ConvertMessage(obj, status) ==
    LET parts == Parts(obj)
    IN  IF \E i \in DOMAIN parts : ~parts[i].ok THEN Raise("ValidationError")
        ELSE IF "id" \notin DOMAIN obj \/ "role" \notin DOMAIN obj
        THEN Raise("KeyError")
        ELSE AppendBuilt(MessageOutput(obj["id"], obj["role"],
                                       Get(obj, "provider_role", None), status,
                                       [i \in DOMAIN parts |-> parts[i].value],
                                       Get(obj, "stop_reason", None),
                                       Get(obj, "stop_sequence", None)))

ArgumentsOrEmpty_unguarded(parsed) == parsed.value
\* try: input_json = json.loads(...) except json.JSONDecodeError: input_json = {}
ArgumentsOrEmpty(parsed) ==
    IF parsed.ok THEN parsed.value ELSE JDict(EmptyMap)

\* role="assistant" of the synthetic message of a tool call
SyntheticRole(obj) == "assistant"

\* the function_call branch of the loop body
ConvertFunctionCall(obj, status) ==
    LET input_json ==
            ArgumentsOrEmpty(json_loads(Get(obj, "arguments", <<"{", "}">>)))
    IN  IF "id" \notin DOMAIN obj THEN Raise("KeyError")
        ELSE LET tool_part ==
                     ToolUsePart(obj["id"],
                                 Get(obj, "name", "unknown_function"),
                                 input_json, status)
             IN  IF ~tool_part.ok THEN Raise("ValidationError")
                 ELSE AppendBuilt(MessageOutput(obj["id"], SyntheticRole(obj),
                                                None, status,
                                                <<tool_part.value>>,
                                                None, None))

aux_payload_with_status(obj) == [k \in DOMAIN obj \ {"type", "id"} |-> obj[k]]
\* aux_payload = {k: v for k, v in obj.items() if k not in {"type","id","status"}}
aux_payload(obj) == [k \in DOMAIN obj \ {"type", "id", "status"} |-> obj[k]]

\* tool_name = typ, except for computer_call
tool_name(typ) == IF typ = "computer_call" THEN "computer_use" ELSE typ

\* the built-in tool call branch of the loop body
ConvertBuiltin(obj, typ, status) ==
    LET tool_ref_part ==
            ToolReferencePart(Get(obj, "id", ""), tool_name(typ), status,
                              aux_payload(obj))
    IN  IF ~tool_ref_part.ok THEN Raise("ValidationError")
        ELSE AppendBuilt(MessageOutput(Get(obj, "id", ""), "assistant", None,
                                       status, <<tool_ref_part.value>>,
                                       None, None))

\* one pass of `for py_obj in output`
ConvertBlock(obj) ==
    LET typ    == Get(obj, "type", "")
        status == get_status(obj)
    IN  IF typ = "message" THEN ConvertMessage(obj, status)
        ELSE IF typ = "function_call" THEN ConvertFunctionCall(obj, status)
        ELSE IF typ \in BUILTIN_TOOL_CALL_TYPES
        THEN ConvertBuiltin(obj, typ, status)
        ELSE Skip

\* Raw provider blocks, as the dicts the loop works on.  A key that a block
\* does not carry is absent from the dict.
Entry(t, text) == [type |-> t, text |-> text]

MessageBlocks ==
    {[type |-> "message", id |-> "m1", role |-> "assistant",
      content |-> <<Entry("output_text", "hi")>>],
     [type |-> "message", id |-> "m2", role |-> "user",
      status |-> "in_progress", provider_role |-> "human",
      content |-> <<Entry("text", "a"), [type |-> "refusal", refusal |-> "no"],
                    Entry("output_text", "b"), [type |-> "output_text"]>>,
      stop_reason |-> "end_turn", stop_sequence |-> "##"],
     [type |-> "message", id |-> "m3", role |-> "system", content |-> <<>>],
     [type |-> "message", id |-> "m4", role |-> "assistant",
      content |-> <<Entry("text", "a")>>, stop_reason |-> "weird"],
     [type |-> "message", id |-> "m5", role |-> "assistant",
      status |-> "completed",
      content |-> <<Entry("text", "a"), Entry("text", "b")>>],
     [type |-> "message", id |-> "m6", role |-> "user",
      status |-> "completed",
      content |-> <<Entry("text", "a"), Entry("output_text", "b")>>],
     [type |-> "message", role |-> "assistant",
      content |-> <<Entry("text", "a")>>]}

FunctionCall(id, toks) ==
    [type |-> "function_call", id |-> id, name |-> "lookup", arguments |-> toks]

FunctionCallBlocks ==
    {FunctionCall("c1", <<"{", "\"q\"", ":", "\"x\"", "}">>),
     [type |-> "function_call", id |-> "c2", role |-> "user",
      status |-> "failed"],
     [type |-> "function_call", id |-> "c3", name |-> "lookup",
      arguments |-> <<"{", "\"q\"", ":">>, status |-> "weird"],
     FunctionCall("c4", <<>>),
     FunctionCall("c5", <<"[", "1", "]">>),
     FunctionCall("c6", <<"\"x\"">>),
     FunctionCall("c7", <<"null">>),
     [type |-> "function_call", name |-> "lookup",
      arguments |-> <<"{", "\"q\"", ":">>]}

BuiltinBlocks ==
    {[type |-> "web_search_call", id |-> "w1", status |-> "completed",
      query |-> "q"],
     [type |-> "file_search_call", id |-> "f1", query |-> "q",
      results |-> "r"],
     [type |-> "computer_call", id |-> "k1", action |-> "click",
      status |-> None],
     [type |-> "web_search_call"]}

UnknownBlocks == {[type |-> "unknown_x"]}

RawBlocks ==
    MessageBlocks \cup FunctionCallBlocks \cup BuiltinBlocks \cup UnknownBlocks

ConvIdle == [pc |-> "idle", exc |-> None]

\* output_to_items(output) is called with a list of at most MaxBlocks raw
\* blocks: items = []
CallConvert ==
    /\ conv.pc = "idle"
    /\ \E n \in 0..MaxBlocks :
          \E blocks_in \in [1..n -> RawBlocks] : output' = blocks_in
    /\ pos' = 0
    /\ items' = <<>>
    /\ conv' = [pc |-> "running", exc |-> None]
    /\ UNCHANGED <<hookVars, streamVars, guardVars, typeVars, ctxVars, aliasVars>>

\* One pass of the loop: the next block is converted and appended, or skipped,
\* or the exception of its conversion leaves output_to_items.
ConvertStep ==
    /\ conv.pc = "running"
    /\ pos < Len(output)
    /\ LET r == ConvertBlock(output[pos + 1])
       IN  /\ items' = IF r.kind = "item" THEN Append(items, r.item) ELSE items
           /\ conv' = IF r.kind = "raise"
                      THEN [pc |-> "raised", exc |-> r.exc]
                      ELSE conv
    /\ pos' = pos + 1
    /\ UNCHANGED output
    /\ UNCHANGED <<hookVars, streamVars, guardVars, typeVars, ctxVars, aliasVars>>

\* return items
ConvertReturn ==
    /\ conv.pc = "running"
    /\ pos = Len(output)
    /\ conv' = [pc |-> "returned", exc |-> None]
    /\ UNCHANGED <<output, pos, items>>
    /\ UNCHANGED <<hookVars, streamVars, guardVars, typeVars, ctxVars, aliasVars>>

ConvertNext ==
    \/ CallConvert
    \/ ConvertStep
    \/ ConvertReturn

(***************************************************************************)
(* Observations on a conversion                                            *)
(***************************************************************************)
TypeOf(b) == Get(b, "type", "")
KnownDiscriminators ==
    {"message", "function_call", "web_search_call", "file_search_call",
     "computer_call"}
IsKnown(b) == TypeOf(b) \in KnownDiscriminators

\* the loop is about to work on a block
AtBlock == conv.pc = "running" /\ pos < Len(output)
\* the block the loop is about to work on
Current == output[pos + 1]
\* the step emits exactly one item and the conversion goes on
EmitsOne ==
    /\ conv'.pc = "running"
    /\ Len(items') = Len(items) + 1
    /\ SubSeq(items', 1, Len(items)) = items
\* the item the step has emitted
Emitted == items'[Len(items')]

\* the kind of content part an item of a block of discriminator t carries
PartTypeFor(t) ==
    IF t = "message" THEN "text"
    ELSE IF t = "function_call" THEN "tool_use" ELSE "tool_reference"

\* item it is the item of block b
ItemOf(it, b) ==
    /\ it.id = Get(b, "id", "")
    /\ \A i \in DOMAIN it.content : it.content[i].type = PartTypeFor(TypeOf(b))

ValidMessage(b) ==
    /\ TypeOf(b) = "message"
    /\ {"id", "role", "content"} \subseteq DOMAIN b
    /\ b.role \in {"assistant", "user"}
    /\ "stop_reason" \in DOMAIN b => b.stop_reason \in StopReason

IsTextEntry(e) == "type" \in DOMAIN e /\ e.type \in {"output_text", "text"}

\* C16: the step on a valid message block emits one message item with the
\* block's id and role, and its stop reason and stop sequence when it has
\* them, whose content is exactly the block's entries of inner type
\* output_text or text, as text parts with the entries' texts, in their
\* order; the entries of other inner types are dropped and nothing raises.
C16_MessageTextPartsOnly ==
    [][(AtBlock /\ ValidMessage(Current)) =>
          LET kept == SelectSeq(Current.content, IsTextEntry)
          IN  /\ EmitsOne
              /\ Emitted.type = "message"
              /\ Emitted.id = Current.id
              /\ Emitted.role = Current.role
              /\ "stop_reason" \in DOMAIN Current =>
                     Emitted.stop_reason = Current.stop_reason
              /\ "stop_sequence" \in DOMAIN Current =>
                     Emitted.stop_sequence = Current.stop_sequence
              /\ Len(Emitted.content) = Len(kept)
              /\ \A i \in 1..Len(kept) :
                     /\ Emitted.content[i].type = "text"
                     /\ Emitted.content[i].text = Get(kept[i], "text", "")
     ]_vars

\* a message block with text, output_text and other entries has been
\* converted to an item with fewer parts than the block has entries
C16_Witness ==
    /\ conv.pc = "running" /\ pos > 0
    /\ ValidMessage(output[pos])
    /\ items # <<>>
    /\ items[Len(items)].id = output[pos].id
    /\ Len(items[Len(items)].content) > 1
    /\ Len(items[Len(items)].content) < Len(output[pos].content)
    /\ \E i, j \in DOMAIN output[pos].content :
          /\ output[pos].content[i].type = "text"
          /\ output[pos].content[j].type = "output_text"

\* a function_call block as the provider emits it: a tool call record always
\* carries its id (a dict of that type without id is a malformed block)
IsFunctionCall(b) == TypeOf(b) = "function_call" /\ "id" \in DOMAIN b
\* what json.loads makes of the block's arguments string
Parsed(b) == json_loads(Get(b, "arguments", <<"{", "}">>))
\* the arguments string of the block is no JSON text at all
InvalidJson(b) == IsFunctionCall(b) /\ ~Parsed(b).ok
\* the arguments string is a JSON text that denotes something else than an
\* object
NonObjectJson(b) ==
    IsFunctionCall(b) /\ Parsed(b).ok /\ ~Parsed(b).value.isdict
\* the step has emitted an item whose content is one tool_use part
OneToolUse ==
    /\ EmitsOne
    /\ Len(Emitted.content) = 1
    /\ Emitted.content[1].type = "tool_use"

C18_NonObjectArgumentsNeverAbort ==
    [][(AtBlock /\ NonObjectJson(Current)) =>
          /\ OneToolUse
          /\ Emitted.content[1].input.isdict
     ]_vars

\* the blocks of the end-to-end scenario, and the items they give
ScenarioBlocks ==
    <<[type |-> "message", id |-> "m1", role |-> "assistant",
       content |-> <<Entry("output_text", "hi")>>],
      FunctionCall("c1", <<"{", "\"q\"", ":", "\"x\"", "}">>),
      [type |-> "unknown_x"]>>
ScenarioHolds ==
    (output = ScenarioBlocks /\ conv.pc = "returned") =>
        /\ Len(items) = 2
        /\ items[1].type = "message" /\ Len(items[1].content) = 1
        /\ items[1].content[1].type = "text"
        /\ items[1].content[1].text = "hi"
        /\ items[2].type = "message" /\ Len(items[2].content) = 1
        /\ items[2].content[1].type = "tool_use"
        /\ items[2].content[1].name = "lookup"
        /\ items[2].content[1].input = JDict([q |-> "\"x\""])

\* C19: the step on any function_call block emits a synthetic message whose
\* id is the block's id, whose role is assistant whatever role the block
\* has, and whose content is exactly one tool_use part carrying the block's
\* id, its name and the object its arguments parse to; and the blocks of the
\* end-to-end scenario give exactly the two items of the scenario.
C19_FunctionCallBecomesToolUse ==
    /\ [][(AtBlock /\ IsFunctionCall(Current)) =>
             /\ OneToolUse
             /\ Emitted.type = "message"
             /\ Emitted.id = Current.id
             /\ Emitted.role = "assistant"
             /\ Emitted.content[1].id = Current.id
             /\ "name" \in DOMAIN Current =>
                    Emitted.content[1].name = Current.name
             /\ (Parsed(Current).ok /\ Parsed(Current).value.isdict) =>
                    Emitted.content[1].input = Parsed(Current).value
       ]_vars
    /\ []ScenarioHolds

IsBuiltin(b) ==
    TypeOf(b) \in {"web_search_call", "file_search_call", "computer_call"}

\* C20: the step on a built-in tool call block emits a synthetic assistant
\* message with exactly one tool_reference part; the part's data has exactly
\* the block's keys other than type, id and status, each with the block's
\* value; its call id is the block's id; its tool name is the discriminator,
\* except that computer_call gives computer_use.
C20_BuiltinBecomesToolReference ==
    [][(AtBlock /\ IsBuiltin(Current)) =>
          /\ EmitsOne
          /\ Emitted.type = "message"
          /\ Emitted.role = "assistant"
          /\ Len(Emitted.content) = 1
          /\ Emitted.content[1].type = "tool_reference"
          /\ DOMAIN Emitted.content[1].data =
                 DOMAIN Current \ {"type", "id", "status"}
          /\ \A k \in DOMAIN Emitted.content[1].data :
                 Emitted.content[1].data[k] = Current[k]
          /\ "id" \in DOMAIN Current =>
                 Emitted.content[1].call_id = Current.id
          /\ Emitted.content[1].tool_name =
                 (IF TypeOf(Current) = "computer_call"
                  THEN "computer_use" ELSE TypeOf(Current))
     ]_vars

\* a computer_call, a block with a status among its fields and a
\* file_search_call have been converted in one call
C20_Witness ==
    /\ conv.pc = "returned" /\ Len(items) = 3
    /\ TypeOf(output[1]) = "computer_call"
    /\ items[1].content[1].tool_name = "computer_use"
    /\ "status" \in DOMAIN output[2] /\ IsBuiltin(output[2])
    /\ "status" \notin DOMAIN items[2].content[1].data
    /\ TypeOf(output[3]) = "file_search_call"
    /\ items[3].content[1].data = [query |-> "q", results |-> "r"]

\* the status the claim gives a block: its own when it is one of the four,
\* completed when it is missing, null or anything else
IngestedStatus(b) ==
    IF "status" \in DOMAIN b
       /\ b.status \in {"completed", "failed", "in_progress", "incomplete"}
    THEN b.status
    ELSE "completed"
\* the block without its status key
WithoutStatus(b) == [k \in DOMAIN b \ {"status"} |-> b[k]]

\* C21: status ingest never fails.  The item a step emits carries the
\* block's status when that is one of the four and completed when it is
\* missing, null or unknown, and so does its tool_use or tool_reference
\* part; and a step that raises would raise as well on the same block
\* without any status, so no status value makes the conversion raise.
C21_StatusIngestNeverFails ==
    [][AtBlock =>
          /\ conv'.pc = "raised" =>
                 ConvertBlock(WithoutStatus(Current)).kind = "raise"
          /\ Len(items') > Len(items) =>
                 /\ Emitted.status = IngestedStatus(Current)
                 /\ \A i \in DOMAIN Emitted.content :
                        Emitted.content[i].type # "text" =>
                            Emitted.content[i].status =
                                IngestedStatus(Current)
     ]_vars

\* blocks with an unknown status, a null status and a status of the enum
\* other than completed have been converted in one call
C21_Witness ==
    /\ conv.pc = "returned" /\ Len(output) = 3 /\ Len(items) = 3
    /\ Get(output[1], "status", "") = "weird"
    /\ items[1].status = "completed"
    /\ Get(output[2], "status", "") = None
    /\ items[2].status = "completed"
    /\ Get(output[3], "status", "") = "failed"
    /\ items[3].status = "failed"
    /\ items[3].content[1].status = "failed"

\* a block that carries a type string but disagrees with the canonical
\* model: a message whose role is neither assistant nor user, or whose stop
\* reason is not one of the enum, or a message or function_call without id
Disagrees(b) ==
    \/ /\ TypeOf(b) = "message"
       /\ \/ "id" \notin DOMAIN b
          \/ Get(b, "role", None) \notin {"assistant", "user"}
          \/ Get(b, "stop_reason", None) \notin StopReason \cup {None}
    \/ TypeOf(b) = "function_call" /\ "id" \notin DOMAIN b

\* C22: one bad item never corrupts a whole response.  A conversion of
\* blocks that each carry a type string never ends with an exception, and
\* the step on a block that disagrees with the canonical model raises
\* nothing and keeps the items already made, so the conversion goes on with
\* the other blocks.
C22_BadItemNeverCorrupts ==
    /\ [](conv.pc # "raised")
    /\ [][(AtBlock /\ Disagrees(Current)) =>
             /\ conv'.pc = "running"
             /\ SubSeq(items', 1, Len(items)) = items
       ]_vars

(***************************************************************************)
(*                          CANONICAL TYPE MODEL                           *)
(*              src/src/agents/core/payloads2/_astral_types.py             *)
(***************************************************************************)
\* the classes of the content parts and of the output items
Variants ==
    {"TextPart", "ImagePart", "AudioPart", "ToolUsePart", "ToolResultPart",
     "ToolReferencePart", "MessageOutput", "ReasoningOutput"}

\* type: Literal[...] of each class
OwnTag(v) ==
    CASE v = "TextPart"          -> "text"
      [] v = "ImagePart"         -> "image"
      [] v = "AudioPart"         -> "audio"
      [] v = "ToolUsePart"       -> "tool_use"
      [] v = "ToolResultPart"    -> "tool_result"
      [] v = "ToolReferencePart" -> "tool_reference"
      [] v = "MessageOutput"     -> "message"
      [] v = "ReasoningOutput"   -> "reasoning"
Tags == {OwnTag(v) : v \in Variants}

RequiredFields_id_only(v) ==
    IF v \in {"ToolUsePart", "MessageOutput"} THEN {"id"} ELSE {}
\* the fields declared with Field(...) and no default
RequiredFields(v) ==
    CASE v = "TextPart"          -> {"text"}
      [] v = "ImagePart"         -> {"url"}
      [] v = "AudioPart"         -> {"url"}
      [] v = "ToolUsePart"       -> {"id", "name", "input"}
      [] v = "ToolResultPart"    -> {"tool_use_id"}
      [] v = "ToolReferencePart" -> {"call_id"}
      [] v = "MessageOutput"     -> {"id", "role", "status", "content"}
      [] v = "ReasoningOutput"   -> {}

\* A keyword argument is given with a value of the declared type of its
\* field, or with a value of another type.
ArgValues == {"well_typed", "ill_typed"}
\* the keyword arguments of a construction, the type tag apart
KwArgs(v) == UNION {[S -> ArgValues] : S \in SUBSET RequiredFields(v)}

NotConstructed ==
    [variant |-> None, tag |-> None, kwargs |-> EmptyMap, ok |-> FALSE]

\* pydantic validation of Class(type=tag, **kwargs); tag None stands for a
\* call that leaves the tag to its default.
Validates(v, tag, kwargs) ==
    /\ tag \in {None, OwnTag(v)}
    /\ RequiredFields(v) \subseteq DOMAIN kwargs
    /\ \A f \in DOMAIN kwargs : kwargs[f] = "well_typed"

TypesInit == constructed = NotConstructed

\* Class(type=tag, **kwargs): the instance, or ValidationError
Construct(v, tag, kwargs) ==
    /\ constructed' = [variant |-> v, tag |-> tag, kwargs |-> kwargs,
                       ok |-> Validates(v, tag, kwargs)]
    /\ UNCHANGED <<hookVars, streamVars, guardVars, convVars, ctxVars, aliasVars>>

TypesNext ==
    \E v \in Variants, tag \in Tags \cup {None} :
        \E kwargs \in KwArgs(v) : Construct(v, tag, kwargs)

\* the tag and the required fields the contract gives each variant
ContractTag ==
    [TextPart |-> "text", ImagePart |-> "image", AudioPart |-> "audio",
     ToolUsePart |-> "tool_use", ToolResultPart |-> "tool_result",
     ToolReferencePart |-> "tool_reference", MessageOutput |-> "message",
     ReasoningOutput |-> "reasoning"]
ContractRequired ==
    [TextPart |-> {"text"}, ImagePart |-> {"url"}, AudioPart |-> {"url"},
     ToolUsePart |-> {"id", "name", "input"},
     ToolResultPart |-> {"tool_use_id"},
     ToolReferencePart |-> {"call_id"},
     MessageOutput |-> {"id", "role", "status", "content"},
     ReasoningOutput |-> {}]

\* C23: construction validation of the canonical types.  A construction
\* whose type tag is not the variant's own tag fails, a construction that
\* leaves out a required field of the variant fails, and a construction with
\* the variant's own tag and every required field, each with a value of its
\* declared type, succeeds.
C23_ConstructionValidation ==
    constructed.variant \in Variants =>
        LET v == constructed.variant
        IN  /\ (constructed.tag # None /\ constructed.tag # ContractTag[v])
                   => ~constructed.ok
            /\ (\E f \in ContractRequired[v] :
                    f \notin DOMAIN constructed.kwargs)
                   => ~constructed.ok
            /\ (/\ constructed.tag = ContractTag[v]
                /\ DOMAIN constructed.kwargs = ContractRequired[v]
                /\ \A f \in DOMAIN constructed.kwargs :
                       constructed.kwargs[f] = "well_typed")
                   => constructed.ok

\* a message built with its own tag and all four required fields
C23_Witness ==
    /\ constructed.variant = "MessageOutput"
    /\ constructed.tag = "message"
    /\ DOMAIN constructed.kwargs = {"id", "role", "status", "content"}
    /\ constructed.ok

(***************************************************************************)
(*                               HOOK CONTEXT                              *)
(*                 src/src/agents/core/hooks.py (HookContext)              *)
(***************************************************************************)
AgentNames == {"a1", "a2"}
ToolNames  == {"t1", "t2"}
\* the metadata argument of HookContext(...): omitted, an empty dict of the
\* caller, or a dict of the caller with an entry
MetadataArgs == {"omitted", "empty", "filled"}
EmptyDict  == [k \in {} |-> ""]
FilledDict == [k \in {"run"} |-> "r1"]

ContextInit ==
    /\ ctxs = <<>>
    /\ mdicts = <<>>
    /\ lastWith = [self |-> 0, tool_name |-> None, result |-> 0, calls |-> 0]

\* self.metadata = metadata or {}: the dicts after the assignment, given the
\* dict object passed (0 for None).  A falsy argument, None or an empty
\* dict, makes a fresh empty dict.
MetadataOrNew(ds, ref) ==
    IF ref = 0 \/ ds[ref] = EmptyDict THEN Append(ds, EmptyDict) ELSE ds
\* the dict object self.metadata then refers to
MetadataRef(ds, ref) ==
    IF ref = 0 \/ ds[ref] = EmptyDict THEN Len(ds) + 1 ELSE ref

\* HookContext.__init__(agent_name, tool, metadata)
HookContextInit(agent_name, tool, ds, ref) ==
    [agent_name |-> agent_name, tool_name |-> tool,
     metadata |-> MetadataRef(ds, ref)]

\* the caller makes a context: HookContext(agent_name, tool, metadata)
NewContext(agent_name, tool, md) ==
    /\ Len(ctxs) < MaxContexts
    /\ LET ds  == IF md = "omitted" THEN mdicts
                  ELSE IF md = "empty" THEN Append(mdicts, EmptyDict)
                  ELSE Append(mdicts, FilledDict)
           ref == IF md = "omitted" THEN 0 ELSE Len(ds)
       IN  /\ ctxs' = Append(ctxs,
                        HookContextInit(agent_name, tool, ds, ref))
           /\ mdicts' = MetadataOrNew(ds, ref)
    /\ UNCHANGED lastWith
    /\ UNCHANGED <<hookVars, streamVars, guardVars, convVars, typeVars, aliasVars>>

with_tool_in_place(cs, ds, c, tool) ==
    Append([cs EXCEPT ![c].tool_name = tool],
           [cs[c] EXCEPT !.tool_name = tool])
\* HookContext.with_tool(tool): the contexts after the call, the new
\* one last
with_tool(cs, ds, c, tool) ==
    Append(cs, HookContextInit(cs[c].agent_name, tool, ds,
                               cs[c].metadata))

\* ctx.with_tool(tool) is called on an existing context
WithTool(c, tool) ==
    /\ Len(ctxs) < MaxContexts
    /\ c \in DOMAIN ctxs
    /\ ctxs' = with_tool(ctxs, mdicts, c, tool)
    /\ mdicts' = MetadataOrNew(mdicts, ctxs[c].metadata)
    /\ lastWith' = [self |-> c, tool_name |-> tool,
                    result |-> Len(ctxs) + 1, calls |-> lastWith.calls + 1]
    /\ UNCHANGED <<hookVars, streamVars, guardVars, convVars, typeVars, aliasVars>>

ContextNext ==
    \/ \E a \in AgentNames, t \in {None, "t1"}, md \in MetadataArgs :
          NewContext(a, t, md)
    \/ \E c \in 1..MaxContexts, t \in ToolNames : WithTool(c, t)

\* the step is a with_tool call
IsWithTool == lastWith'.calls = lastWith.calls + 1
\* the metadata of context c, in the state before and after the step
MetaBefore(c) == mdicts[ctxs[c].metadata]
MetaAfter(c)  == mdicts'[ctxs'[c].metadata]

\* C24: with_tool(t) returns a new context, whose agent name and metadata
\* equal the original's and whose tool name is t, and it leaves the agent
\* name, the tool name and the metadata of the original context (and of
\* every other context) as they were.
C24_WithToolReturnsNew ==
    [][IsWithTool =>
          LET c == lastWith'.self
              n == lastWith'.result
          IN  /\ n \notin DOMAIN ctxs /\ n \in DOMAIN ctxs' /\ n # c
              /\ ctxs'[n].agent_name = ctxs[c].agent_name
              /\ MetaAfter(n) = MetaBefore(c)
              /\ ctxs'[n].tool_name = lastWith'.tool_name
              /\ \A o \in DOMAIN ctxs :
                     /\ ctxs'[o].agent_name = ctxs[o].agent_name
                     /\ ctxs'[o].tool_name = ctxs[o].tool_name
                     /\ MetaAfter(o) = MetaBefore(o)
     ]_vars

\* with_tool has been called on a context that had another tool name and a
\* metadata entry
C24_Witness ==
    /\ lastWith.self # 0
    /\ ctxs[lastWith.self].tool_name = "t1"
    /\ ctxs[lastWith.result].tool_name = "t2"
    /\ mdicts[ctxs[lastWith.self].metadata] = FilledDict
    /\ mdicts[ctxs[lastWith.result].metadata] = FilledDict

(***************************************************************************)
(* The process-wide registry                                               *)
(***************************************************************************)
\* the default callbacks in the list of event ev
DefaultsIn(ev) == SelectSeq(hooks[ev], LAMBDA cb : cb \in DefaultCallbacks)

\* C26 (as claimed): global_hooks holds exactly one default logging
\* callback per event, and a dispatch of any of the five events on the
\* registry as imported invokes that callback and returns normally.
C26_GlobalDefaultsRun ==
    /\ \A ev \in Events : DefaultsIn(ev) = <<DefaultOf(ev)>>
    /\ (Done /\ hooks = GlobalRegistry) =>
          /\ outcome.kind = "returned"
          /\ Invoked(call.ev) = <<DefaultOf(call.ev)>>

(***************************************************************************)
(* Callbacks that call back into the registry                              *)
(***************************************************************************)
\* an error callback may report through a non-error event
RegisterReentrant(cb) == Register("error", cb)

\* a callback that registers is registered for any event
RegisterRegistering(ev, cb) == Register(ev, cb)

ReentrantNext ==
    \/ \E ev \in Events, cb \in Callbacks : Register(ev, cb)
    \/ \E cb \in ReentrantCallbacks : RegisterReentrant(cb)
    \/ \E ev \in Events, ctx \in Contexts : \E d \in CallData(ev) : Run(ev, ctx, d)
    \/ HookStep
    \/ HookStepReenter
    \/ HookReturn

RegisteringNext ==
    \/ \E ev \in Events, cb \in Callbacks : Register(ev, cb)
    \/ \E ev \in Events, cb \in RegisteringCallbacks : RegisterRegistering(ev, cb)
    \/ \E ev \in Events, ctx \in Contexts : \E d \in CallData(ev) : Run(ev, ctx, d)
    \/ HookStep
    \/ HookStepRegister
    \/ HookReturn

C28_DispatchOnSnapshot ==
    /\ call.ev # None => Len(Invoked(call.ev)) <= Len(call.registered)
    /\ (Done /\ outcome.kind = "returned") => Invoked(call.ev) = call.registered

(***************************************************************************)
(*                 JSON FRAGMENTS AS OBJECTS (stream.py)                   *)
(***************************************************************************)
\* Python passes and stores references. Object 0 is the {} that
\* _Block.__init__ creates; objects 1, 2, .. are the caller's fragments.
OwnObject == 0

\* _Block.__init__: json_content = {} (a dict of the block's own), open
AliasInit ==
    /\ heap = (OwnObject :> JDict(EmptyMap))
    /\ json_ref = OwnObject
    /\ bclosed = FALSE
    /\ frags = <<>>

\* _Block.add_json(json_part), json_part being the object o:
\*   both dicts -> self.json_content.update(json_part): the object that
\*                 json_content refers to is changed in place;
\*   otherwise  -> self.json_content = json_part: json_content refers to
\*                 the caller's object from now on.
add_json_heap(h, o) ==
    IF bclosed THEN h
    ELSE IF h[o].isdict /\ h[json_ref].isdict
         THEN [h EXCEPT ![json_ref] = JDict(DictUpdate(@.m, h[o].m))]
         ELSE h
add_json_ref(h, o) ==
    IF bclosed THEN json_ref
    ELSE IF h[o].isdict /\ h[json_ref].isdict THEN json_ref ELSE o

\* the caller builds a fragment and passes it to merge_json
MergeFragment(frag) ==
    /\ Len(frags) < MaxFragments
    /\ LET o  == Len(frags) + 1
           h1 == (o :> frag) @@ heap
       IN  /\ heap' = add_json_heap(h1, o)
           /\ json_ref' = add_json_ref(h1, o)
           /\ frags' = Append(frags, [ref |-> o, was |-> frag])
    /\ UNCHANGED bclosed
    /\ UNCHANGED <<hookVars, streamVars, guardVars, convVars, typeVars, ctxVars>>

\* the caller later changes a dict fragment it passed: fragment["z"] = 9
CallerChanges(k) ==
    /\ k \in DOMAIN frags
    /\ heap[frags[k].ref].isdict
    /\ "z" \notin DOMAIN heap[frags[k].ref].m
    /\ heap' = [heap EXCEPT ![frags[k].ref] = JDict(DictUpdate(@.m, [z |-> 9]))]
    /\ frags' = [frags EXCEPT ![k].was = heap'[frags[k].ref]]
    /\ UNCHANGED <<json_ref, bclosed>>
    /\ UNCHANGED <<hookVars, streamVars, guardVars, convVars, typeVars, ctxVars>>

\* _Block.close
CloseBlock ==
    /\ ~bclosed
    /\ bclosed' = TRUE
    /\ UNCHANGED <<heap, json_ref, frags>>
    /\ UNCHANGED <<hookVars, streamVars, guardVars, convVars, typeVars, ctxVars>>

AliasNext ==
    \/ \E f \in Fragments : MergeFragment(f)
    \/ \E k \in 1..MaxFragments : CallerChanges(k)
    \/ CloseBlock

\* the block's accumulated JSON value
BlockJson == heap[json_ref]
\* the step is a change the caller makes to a fragment of its own
IsCallerChange == \E k \in DOMAIN frags : frags'[k].was # frags[k].was

\* C29 (as claimed): merge_json never modifies a fragment supplied by the
\* caller and keeps no alias to it. Every fragment passed in has the value
\* the caller gave it, after any sequence of merges, and a later change to
\* a fragment by the caller does not change the block's accumulated JSON,
\* before or after the close.
C29_NoFragmentAlias ==
    /\ [](\A k \in DOMAIN frags : heap[frags[k].ref] = frags[k].was)
    /\ [][IsCallerChange => BlockJson' = BlockJson]_vars

(***************************************************************************)
(*        THE SECOND MESSAGE PATH: ResponseOutputMessage (_share.py)       *)
(***************************************************************************)
\* ResponseOutputMessage(**block): type, id, role, content and status are
\* required; status is a ResponseStatus, stop_reason a StopReason or None
ResponseOutputMessage(b) ==
    [ok |-> /\ Get(b, "type", None) = "message"
            /\ IsStr(Get(b, "id", None))
            /\ IsStr(Get(b, "role", None))
            /\ "content" \in DOMAIN b
            /\ Get(b, "status", None) \in ResponseStatus
            /\ Get(b, "stop_reason", None) \in StopReason \cup {None},
     value |-> [type |-> "message", id |-> Get(b, "id", None),
                role |-> Get(b, "role", None),
                content |-> Get(b, "content", <<>>),
                status |-> Get(b, "status", None),
                provider_role |-> Get(b, "provider_role", None),
                stop_reason |-> Get(b, "stop_reason", None),
                stop_sequence |-> Get(b, "stop_sequence", None)]]

\* the loop of to_astral_message over self.content: a part is made for
\* part["type"] == "text" (and for image, audio, tool_use, tool_result,
\* tool_reference, which the blocks here do not carry); an entry of any
\* other type is passed over; part["type"] and part["text"] are subscripts
RECURSIVE content_parts(_)
content_parts(content) ==
    IF content = <<>> THEN [kind |-> "parts", parts |-> <<>>]
    ELSE LET part == Head(content)
             rest == content_parts(Tail(content))
         IN  IF "type" \notin DOMAIN part THEN [kind |-> "KeyError", parts |-> <<>>]
             ELSE IF part["type"] = "text"
             THEN IF "text" \notin DOMAIN part
                  THEN [kind |-> "KeyError", parts |-> <<>>]
                  ELSE IF ~TextPart(part["text"]).ok
                  THEN [kind |-> "ValidationError", parts |-> <<>>]
                  ELSE IF rest.kind # "parts" THEN rest
                  ELSE [kind |-> "parts",
                        parts |-> <<TextPart(part["text"]).value>> \o rest.parts]
             ELSE rest

\* ResponseOutputMessage.to_astral_message, on the model made of block b
\* (MessageOutputItem.to_astral_message delegates to it)
to_astral_message(b) ==
    LET m  == ResponseOutputMessage(b)
        cp == content_parts(m.value.content)
    IN  IF ~m.ok THEN Raise("ValidationError")
        ELSE IF cp.kind # "parts" THEN Raise(cp.kind)
        ELSE AppendBuilt(MessageOutput(m.value.id, m.value.role,
                                       m.value.provider_role, m.value.status,
                                       cp.parts, m.value.stop_reason,
                                       m.value.stop_sequence))

\* a message block all of whose content entries are text or output_text
TextOnlyMessage(b) ==
    /\ TypeOf(b) = "message"
    /\ \A i \in DOMAIN Get(b, "content", <<>>) : IsTextEntry(b.content[i])

\* the two items are the same message: id, role, status, ordered text parts
SameMessage(x, y) ==
    /\ x.id = y.id
    /\ x.role = y.role
    /\ x.status = y.status
    /\ Len(x.content) = Len(y.content)
    /\ \A i \in DOMAIN x.content :
          /\ x.content[i].type = "text" /\ y.content[i].type = "text"
          /\ x.content[i].text = y.content[i].text

\* C30 (as claimed): the two message conversion paths agree. For a message
\* block whose content entries are all of inner type text or output_text,
\* output_to_items emits an item exactly if to_astral_message gives one,
\* and the two items have the same id, role, status and ordered text parts.
C30_MessagePathsAgree ==
    [][ (AtBlock /\ TextOnlyMessage(Current)) =>
          LET other == to_astral_message(Current)
          IN  /\ (Len(items') > Len(items)) <=> (other.kind = "item")
              /\ (Len(items') > Len(items)) => SameMessage(Emitted, other.item)
      ]_vars

(***************************************************************************)
(* Specifications                                                          *)
(***************************************************************************)
HooksNext ==
    \/ \E ev \in Events, cb \in Callbacks : Register(ev, cb)
    \/ \E ev \in Events, ctx \in Contexts : \E d \in CallData(ev) : Run(ev, ctx, d)
    \/ HookStep
    \/ HookReturn

ConvInit ==
    /\ output = <<>>
    /\ pos = 0
    /\ items = <<>>
    /\ conv = ConvIdle

Init == HooksInit /\ StreamInit /\ GuardInit /\ ConvInit /\ TypesInit
        /\ ContextInit /\ AliasInit

SpecHooks == Init /\ [][HooksNext]_vars

GlobalInit == GlobalHooksInit /\ StreamInit /\ GuardInit /\ ConvInit
              /\ TypesInit /\ ContextInit /\ AliasInit

SpecReentrant ==
    /\ Init
    /\ [][ReentrantNext]_vars
    /\ WF_vars(HookStep \/ HookStepReenter \/ HookReturn)

SpecRegistering == Init /\ [][RegisteringNext]_vars

\* a registry is either one a caller constructed or the process-wide one
SpecGlobalHooks == (Init \/ GlobalInit) /\ [][HooksNext]_vars

SpecStream == Init /\ [][StreamNext]_vars

SpecGuardrail == Init /\ [][GuardrailNext]_vars

SpecConvert == Init /\ [][ConvertNext]_vars

SpecTypes == Init /\ [][TypesNext]_vars

SpecContext == Init /\ [][ContextNext]_vars

SpecAlias == Init /\ [][AliasNext]_vars

====
